---- MODULE Spec2Model ----
(***************************************************************************)
(* Model of the weather-station pipeline of my-spatial-analysis-w1:        *)
(*   weather_api.py          extract_temperature_data,                     *)
(*                           print_temperature_summary                     *)
(*   distance_calculator.py  haversine_distance,                           *)
(*                           calculate_distances_to_taipei_station,        *)
(*                           print_distance_summary                        *)
(*   weather_map.py          get_temperature_color, create_weather_map,    *)
(*                           create_temperature_heatmap                    *)
(*   main.py                 main (steps 2-4)                              *)
(*                                                                         *)
(* Python values are modelled as follows.                                  *)
(*   - A JSON string is a TLA+ string.  None and a JSON list are the two   *)
(*     distinguished strings None and PyList; no JSON string of the model  *)
(*     has that text.                                                      *)
(*   - A Python float is a record [kind, v]: kind "num" with v the value   *)
(*     in units of 1/10000 (coordinates, temperatures) or 1/100 km         *)
(*     (rounded distances), kind "nan", or kind "inf".                     *)
(*   - A dict object lives in heap (a sequence of station records); a list *)
(*     of stations is a sequence of heap addresses, so that aliasing and   *)
(*     mutation of a station object are visible.                           *)
(* Station fields that every function only passes through (station_id,     *)
(* station_name, county, town, observation_time, the other weather         *)
(* elements) are left out of the station record.                           *)
(***************************************************************************)
EXTENDS Integers, Sequences, FiniteSets, TLC

VARIABLES
    prog,                    \* which program runs: "distance_calculator", "main", "weather_api"
    distance_only,           \* main.py --distance-only
    pc,                      \* position in the program
    heap,                    \* station dict objects, by address
    weather_data,            \* the loaded list: addresses into heap
    before,                  \* the input list and heap as they were when calculate_distances was called
    stations_with_distance,  \* the list calculate_distances returned
    summary,                 \* what print_distance_summary printed, and how it ended
    temp_summary,            \* print_temperature_summary
    weather_map,             \* create_weather_map
    heatmap,                 \* create_temperature_heatmap
    result_summary,          \* main.py step 4
    raw_document,            \* the document extract_temperature_data is given
    extracted                \* what extract_temperature_data returned, and how it ended

vars == <<prog, distance_only, pc, heap, weather_data, before, stations_with_distance,
          summary, temp_summary, weather_map, heatmap, result_summary,
          raw_document, extracted>>

(***************************************************************************)
(* Bounds of the model.                                                    *)
(***************************************************************************)
\* longest station list loaded by the distance program
MaxStations == 3
\* longest station list loaded by main.py / weather_api.py
MaxTempStations == 3
\* longest records.Station list of a raw document
MaxRaw == 3

(***************************************************************************)
(* Python values.                                                          *)
(***************************************************************************)
None == "<None>"
PyList == "<list>"

\* bool(v) of a JSON value: None and the empty string are falsy.
Truthy(v) == v \notin {None, ""}

Num(x) == [kind |-> "num", v |-> x]
NaN == [kind |-> "nan", v |-> 0]
Inf == [kind |-> "inf", v |-> 0]

\* a < b on floats: every comparison with NaN is False.
FLt(a, b) ==
    CASE a.kind = "nan" \/ b.kind = "nan" -> FALSE
      [] a.kind = "inf" -> FALSE
      [] b.kind = "inf" -> TRUE
      [] OTHER -> a.v < b.v

\* The decimal strings of the model and their values in units of 1/10000.
Decimal ==
    [s \in {"25.0478", "24.0", "22.0", "121.5170", "120.0",
            "-99", "18.5", "20.0", "25.3", "28.0", "30.1"} |->
        CASE s = "25.0478" -> 250478
          [] s = "24.0" -> 240000
          [] s = "22.0" -> 220000
          [] s = "121.5170" -> 1215170
          [] s = "120.0" -> 1200000
          [] s = "-99" -> -990000
          [] s = "18.5" -> 185000
          [] s = "20.0" -> 200000
          [] s = "25.3" -> 253000
          [] s = "28.0" -> 280000
          [] s = "30.1" -> 301000]

\* float(v): TypeError for None and a list, ValueError for a string that is no
\* number; "nan" and "inf" parse.
PyFloat(v) ==
    CASE v \in {None, PyList} -> [exc |-> "TypeError", val |-> Num(0)]
      [] v = "nan" -> [exc |-> "", val |-> NaN]
      [] v = "inf" -> [exc |-> "", val |-> Inf]
      [] v \in DOMAIN Decimal -> [exc |-> "", val |-> Num(Decimal[v])]
      [] OTHER -> [exc |-> "ValueError", val |-> Num(0)]

(***************************************************************************)
(* distance_calculator.py                                                  *)
(***************************************************************************)
\* default reference point, in units of 1/10000 degree
taipei_lat == 250478
taipei_lon == 1215170

\* round(haversine, 2) to the default reference point, in units of 1/100 km,
\* for the coordinates of the model (values computed by the source).
HaversineTable(lat, lon) ==
    CASE lat = 250478 /\ lon = 1215170 -> 0
      [] lat = 250478 /\ lon = 1200000 -> 15282
      [] lat = 240000 /\ lon = 1215170 -> 11651
      [] lat = 240000 /\ lon = 1200000 -> 19268
      [] lat = 220000 /\ lon = 1215170 -> 33890
      [] lat = 220000 /\ lon = 1200000 -> 37251

\* haversine_distance followed by round(distance, 2).  math.sin of an infinite
\* argument raises ValueError; NaN propagates through every operation.
haversine_distance(lat, lon) ==
    CASE lat.kind = "inf" \/ lon.kind = "inf" -> [exc |-> "ValueError", val |-> Num(0)]
      [] lat.kind = "nan" \/ lon.kind = "nan" -> [exc |-> "", val |-> NaN]
      [] OTHER -> [exc |-> "", val |-> Num(HaversineTable(lat.v, lon.v))]

NoDistance == [present |-> FALSE, kilometers |-> Num(0)]

\* No copy: the name station_with_distance bound to the input object itself.
AliasStation(h, a) == [heap |-> h, addr |-> a]

\* station.copy(): a new dict object with the same items (shallow).
CopyStation(h, a) == [heap |-> Append(h, h[a]), addr |-> Len(h) + 1]

\* station_with_distance['distance_to_taipei'] = {...}
SetDistance(h, a, km) ==
    [h EXCEPT ![a].distance_to_taipei = [present |-> TRUE, kilometers |-> km]]

\* insert(0, ...) instead of append: the output comes out in reverse order.
PrependStation(out, a) == <<a>> \o out

\* stations_with_distance.append(station_with_distance)
AppendStation(out, a) == Append(out, a)

\* `if not lat_str or not lon_str: continue`
MissingCoordinate(lat_str, lon_str) == ~Truthy(lat_str) \/ ~Truthy(lon_str)

\* One iteration of the loop over weather_data: the station is skipped or a copy
\* with its distance is appended.  Every exception of the body is caught.
ProcessStation(h, out, a) ==
    LET lat_str == h[a].latitude
        lon_str == h[a].longitude
        lat == PyFloat(lat_str)
        lon == PyFloat(lon_str)
        distance == haversine_distance(lat.val, lon.val)
    IN  IF MissingCoordinate(lat_str, lon_str) THEN [heap |-> h, out |-> out]
        ELSE IF lat.exc # "" \/ lon.exc # "" \/ distance.exc # ""
             THEN [heap |-> h, out |-> out]
        ELSE LET c == CopyStation(h, a)
             IN  [heap |-> SetDistance(c.heap, c.addr, distance.val),
                  out |-> AppendStation(out, c.addr)]

RECURSIVE CalcLoop(_, _, _, _)
CalcLoop(h, data, i, out) ==
    IF i > Len(data) THEN [heap |-> h, out |-> out]
    ELSE LET r == ProcessStation(h, out, data[i])
         IN  CalcLoop(r.heap, data, i + 1, r.out)

calculate_distances_to_taipei_station(h, data) == CalcLoop(h, data, 1, <<>>)

(***************************************************************************)
(* sorted(), min(), max(), sum() as CPython computes them.  sorted() on a  *)
(* list shorter than 64 finds the initial run (reversing a strictly        *)
(* descending one) and inserts the rest by binary insertion; it uses only  *)
(* <, so it is stable, and a NaN key compares False with everything.       *)
(* Items are records [k |-> key, x |-> element].                           *)
(***************************************************************************)
Reverse(s) == [i \in 1..Len(s) |-> s[Len(s) + 1 - i]]

\* count_run, ascending case: the run ends before the first s[j] < s[j-1].
RECURSIVE RunAscending(_, _)
RunAscending(s, j) ==
    IF j > Len(s) THEN Len(s)
    ELSE IF FLt(s[j].k, s[j - 1].k) THEN j - 1 ELSE RunAscending(s, j + 1)

\* count_run, descending case: the run goes on while s[j] < s[j-1].
RECURSIVE RunDescending(_, _)
RunDescending(s, j) ==
    IF j > Len(s) THEN Len(s)
    ELSE IF FLt(s[j].k, s[j - 1].k) THEN RunDescending(s, j + 1) ELSE j - 1

\* binarysort's search: the 0-based position in s[0..r) where pivot goes.
RECURSIVE InsertPosition(_, _, _, _)
InsertPosition(s, pivot, l, r) ==
    IF l >= r THEN l
    ELSE LET p == l + ((r - l) \div 2)
         IN  IF FLt(pivot.k, s[p + 1].k) THEN InsertPosition(s, pivot, l, p)
             ELSE InsertPosition(s, pivot, p + 1, r)

\* binarysort: the first `start` items are sorted; insert the others in turn.
RECURSIVE BinarySort(_, _)
BinarySort(s, start) ==
    IF start >= Len(s) THEN s
    ELSE LET pivot == s[start + 1]
             pos == InsertPosition(s, pivot, 0, start)
         IN  BinarySort(SubSeq(s, 1, pos) \o <<pivot>> \o SubSeq(s, pos + 1, start)
                            \o SubSeq(s, start + 2, Len(s)),
                        start + 1)

PySorted(s) ==
    IF Len(s) < 2 THEN s
    ELSE LET descending == FLt(s[2].k, s[1].k)
             run == IF descending THEN RunDescending(s, 3) ELSE RunAscending(s, 3)
             s1 == IF descending
                   THEN Reverse(SubSeq(s, 1, run)) \o SubSeq(s, run + 1, Len(s))
                   ELSE s
         IN  BinarySort(s1, run)

\* min(d): keeps the first item unless a later one is < it.
RECURSIVE PyMinFrom(_, _, _)
PyMinFrom(d, i, cur) ==
    IF i > Len(d) THEN cur
    ELSE PyMinFrom(d, i + 1, IF FLt(d[i], cur) THEN d[i] ELSE cur)
PyMin(d) == PyMinFrom(d, 2, d[1])

\* max(d): keeps the first item unless a later one is > it.
RECURSIVE PyMaxFrom(_, _, _)
PyMaxFrom(d, i, cur) ==
    IF i > Len(d) THEN cur
    ELSE PyMaxFrom(d, i + 1, IF FLt(cur, d[i]) THEN d[i] ELSE cur)
PyMax(d) == PyMaxFrom(d, 2, d[1])

FAdd(a, b) ==
    CASE a.kind = "nan" \/ b.kind = "nan" -> NaN
      [] a.kind = "inf" \/ b.kind = "inf" -> Inf
      [] OTHER -> Num(a.v + b.v)

\* sum(d), starting from 0
RECURSIVE PySumFrom(_, _, _)
PySumFrom(d, i, acc) ==
    IF i > Len(d) THEN acc ELSE PySumFrom(d, i + 1, FAdd(acc, d[i]))
PySum(d) == PySumFrom(d, 1, Num(0))

(***************************************************************************)
(* print_distance_summary                                                  *)
(***************************************************************************)
\* how many rows the two listings show
NearestCount == 10
FarthestCount == 5

Kilometers(h, a) == h[a].distance_to_taipei.kilometers

\* sorted(stations_with_distance, key=lambda x: x['distance_to_taipei']['kilometers'])
sorted_stations(h, list) ==
    LET items == [i \in 1..Len(list) |-> [k |-> Kilometers(h, list[i]), x |-> list[i]]]
        res == PySorted(items)
    IN  [i \in 1..Len(list) |-> res[i].x]

\* [s['distance_to_taipei']['kilometers'] for s in stations_with_distance]
distances(h, list) == [i \in 1..Len(list) |-> Kilometers(h, list[i])]

\* sorted(distances)
sorted_distances(d) ==
    LET res == PySorted([i \in 1..Len(d) |-> [k |-> d[i], x |-> d[i]]])
    IN  [i \in 1..Len(d) |-> res[i].k]

\* sorted(distances)[len(distances)//2]
Median(d) == sorted_distances(d)[(Len(d) \div 2) + 1]

\* sorted_stations[:10]
NearestSlice(s) == SubSeq(s, 1, IF Len(s) < NearestCount THEN Len(s) ELSE NearestCount)

\* sorted_stations[-5:]
FarthestSlice(s) ==
    SubSeq(s, IF Len(s) < FarthestCount THEN 1 ELSE Len(s) - FarthestCount + 1, Len(s))

\* f"{temp:5s}": the format code s accepts a str only; None (a weather element
\* whose key was missing upstream) and a list raise TypeError.
RowFormats(st) == st.temperature \notin {None, PyList}

\* The rows of a listing that get printed: those before the first one whose
\* formatting raises.
RECURSIVE PrintedRows(_, _, _)
PrintedRows(h, rows, i) ==
    IF i > Len(rows) \/ ~RowFormats(h[rows[i]]) THEN SubSeq(rows, 1, i - 1)
    ELSE PrintedRows(h, rows, i + 1)

NoStats == [min |-> Num(0), max |-> Num(0), total |-> Num(0), count |-> 0, median |-> Num(0)]

NotRun == [ran |-> FALSE, outcome |-> "", printed |-> <<>>, stats |-> NoStats,
           nearest |-> <<>>, farthest |-> <<>>]

\* `if not stations_with_distance:`
NoStations(list) == list = <<>>

Statistics(d) ==
    [min |-> PyMin(d), max |-> PyMax(d), total |-> PySum(d), count |-> Len(d),
     median |-> Median(d)]

\* print("沒有測站數據可分析"); return
NoDataNotice == [NotRun EXCEPT !.ran = TRUE, !.outcome = "returned", !.printed = <<"no_data">>]

\* Lines 109-144: the header, the statistics and the two listings, in the order
\* they are printed, and how the call ends.  sorted_stations[-5:] is evaluated
\* only when the first listing has been printed.
SummaryOfStations(h, list) ==
    LET sorted == sorted_stations(h, list)
        near == NearestSlice(sorted)
        far == FarthestSlice(sorted)
        nearPrinted == PrintedRows(h, near, 1)
        farPrinted == PrintedRows(h, far, 1)
        head == [NotRun EXCEPT !.ran = TRUE, !.stats = Statistics(distances(h, list))]
    IN  IF nearPrinted # near
        THEN [head EXCEPT !.outcome = "TypeError",
                          !.printed = <<"header", "statistics", "nearest">>,
                          !.nearest = nearPrinted]
        ELSE IF farPrinted # far
        THEN [head EXCEPT !.outcome = "TypeError",
                          !.printed = <<"header", "statistics", "nearest", "farthest">>,
                          !.nearest = near, !.farthest = farPrinted]
        ELSE [head EXCEPT !.outcome = "returned",
                          !.printed = <<"header", "statistics", "nearest", "farthest">>,
                          !.nearest = near, !.farthest = far]

\* The function without its guard on the empty list: min() of an empty list
\* raises ValueError once the header has been printed.
print_distance_summary_unguarded(h, list) ==
    IF list = <<>>
    THEN [NotRun EXCEPT !.ran = TRUE, !.outcome = "ValueError", !.printed = <<"header">>]
    ELSE SummaryOfStations(h, list)

print_distance_summary(h, list) ==
    IF NoStations(list) THEN NoDataNotice ELSE SummaryOfStations(h, list)

(***************************************************************************)
(* weather_api.py: extract_temperature_data.  A JSON value of the raw      *)
(* document is a record with its type and, for a dict, the keys the        *)
(* function reads; Absent stands for a key the dict does not have.         *)
(***************************************************************************)
Absent == "<absent>"

\* d.get(key): None when the key is absent
DictGet(v) == IF v = Absent THEN None ELSE v

\* a document: None, or a dict with or without records, itself with or without Station
Document(type, rtype, stype, items) ==
    [type |-> type,
     records |-> [type |-> rtype, Station |-> [type |-> stype, items |-> items]]]

\* `if not weather_data`
NoDocument == Document("none", "absent", "absent", <<>>)

NoStationInfo == [station_id |-> None, latitude |-> None, longitude |-> None,
                  temperature |-> None, precipitation |-> None]

\* The scan without the break: every entry named WGS84 overwrites the
\* coordinates, so the last one wins.
RECURSIVE ScanCoordinatesLastMatch(_, _)
ScanCoordinatesLastMatch(items, i) ==
    IF i > Len(items) THEN [exc |-> "", latitude |-> None, longitude |-> None]
    ELSE IF items[i].type # "dict"
         THEN [exc |-> "AttributeError", latitude |-> None, longitude |-> None]
    ELSE LET rest == ScanCoordinatesLastMatch(items, i + 1)
         IN  IF rest.exc # "" THEN rest
             ELSE IF /\ items[i].CoordinateName = "WGS84"
                     /\ \A j \in (i + 1)..Len(items) : items[j].CoordinateName # "WGS84"
                  THEN [exc |-> "", latitude |-> DictGet(items[i].StationLatitude),
                        longitude |-> DictGet(items[i].StationLongitude)]
             ELSE rest

\* The scan of the Coordinates list (lines 85-89): the first entry named WGS84
\* gives both coordinates and ends the scan; coord.get on an entry that is not a
\* dict raises AttributeError.
RECURSIVE ScanCoordinates(_, _)
ScanCoordinates(items, i) ==
    IF i > Len(items) THEN [exc |-> "", latitude |-> None, longitude |-> None]
    ELSE IF items[i].type # "dict"
         THEN [exc |-> "AttributeError", latitude |-> None, longitude |-> None]
    ELSE IF items[i].CoordinateName = "WGS84"
         THEN [exc |-> "", latitude |-> DictGet(items[i].StationLatitude),
               longitude |-> DictGet(items[i].StationLongitude)]
    ELSE ScanCoordinates(items, i + 1)

\* station.get('GeoInfo', {}).get('Coordinates', []) and the loop over it
Coordinates(geo) ==
    CASE geo.type = "absent" \/ geo.Coordinates.type = "absent" ->
             [exc |-> "", latitude |-> None, longitude |-> None]
      [] geo.Coordinates.type = "null" ->
             [exc |-> "TypeError", latitude |-> None, longitude |-> None]
      [] geo.Coordinates.type = "str" ->
             [exc |-> "AttributeError", latitude |-> None, longitude |-> None]
      [] OTHER -> ScanCoordinates(geo.Coordinates.items, 1)

\* The body of the try block (lines 69-102) for one raw entry: the exception it
\* raises, or the station_info it appends.
ExtractStation(e) ==
    LET coords == Coordinates(e.GeoInfo)
        we == e.WeatherElement
    IN  IF e.type # "dict" THEN [exc |-> "AttributeError", station_info |-> NoStationInfo]
        ELSE IF e.GeoInfo.type \notin {"absent", "dict"}
             THEN [exc |-> "AttributeError", station_info |-> NoStationInfo]
        ELSE IF coords.exc # "" THEN [exc |-> coords.exc, station_info |-> NoStationInfo]
        ELSE IF we.type \notin {"absent", "dict"}
             THEN [exc |-> "AttributeError", station_info |-> NoStationInfo]
        ELSE IF we.type = "dict" /\ we.Now.type \notin {"absent", "dict"}
             THEN [exc |-> "AttributeError", station_info |-> NoStationInfo]
        ELSE [exc |-> "",
              station_info |->
                  [station_id |-> DictGet(e.StationId),
                   latitude |-> coords.latitude,
                   longitude |-> coords.longitude,
                   temperature |-> IF we.type = "absent" THEN None
                                   ELSE DictGet(we.AirTemperature),
                   precipitation |-> IF we.type = "absent" \/ we.Now.type = "absent"
                                     THEN None
                                     ELSE DictGet(we.Now.Precipitation)]]

\* The except handler (line 105) evaluates station.get('StationId', 'Unknown')
\* for its message: on an entry that is not a dict this raises AttributeError
\* again, outside any try.
HandlerRaises(e) == e.type # "dict"

\* The loop with a de-duplication: an entry whose StationId is already in
\* temperature_data is not appended.
RECURSIVE ExtractLoopDedup(_, _, _)
ExtractLoopDedup(stations, i, temperature_data) ==
    IF i > Len(stations) THEN [outcome |-> "returned", data |-> temperature_data]
    ELSE LET r == ExtractStation(stations[i])
             seen == \E k \in 1..Len(temperature_data) :
                         temperature_data[k].station_id = r.station_info.station_id
         IN  IF r.exc = ""
             THEN ExtractLoopDedup(stations, i + 1,
                                   IF seen THEN temperature_data
                                   ELSE Append(temperature_data, r.station_info))
             ELSE IF HandlerRaises(stations[i])
             THEN [outcome |-> "AttributeError", data |-> <<>>]
             ELSE ExtractLoopDedup(stations, i + 1, temperature_data)

RECURSIVE ExtractLoop(_, _, _)
ExtractLoop(stations, i, temperature_data) ==
    IF i > Len(stations) THEN [outcome |-> "returned", data |-> temperature_data]
    ELSE LET r == ExtractStation(stations[i])
         IN  IF r.exc = ""
             THEN ExtractLoop(stations, i + 1, Append(temperature_data, r.station_info))
             ELSE IF HandlerRaises(stations[i])
             THEN [outcome |-> "AttributeError", data |-> <<>>]
             ELSE ExtractLoop(stations, i + 1, temperature_data)

\* weather_data.get('records', {}).get('Station', [])
StationsOf(doc) ==
    IF doc.records.type = "absent" \/ doc.records.Station.type = "absent" THEN <<>>
    ELSE doc.records.Station.items

\* The function with weather_data['records']['Station'] in place of the two
\* .get calls: an absent key raises KeyError.
extract_temperature_data_subscript(doc) ==
    IF doc.type = "none" THEN [outcome |-> "returned", data |-> <<>>]
    ELSE IF doc.records.type = "absent" \/ doc.records.Station.type = "absent"
         THEN [outcome |-> "KeyError", data |-> <<>>]
    ELSE ExtractLoop(StationsOf(doc), 1, <<>>)

extract_temperature_data(doc) ==
    IF doc.type = "none" THEN [outcome |-> "returned", data |-> <<>>]
    ELSE ExtractLoop(StationsOf(doc), 1, <<>>)

(***************************************************************************)
(* The temperature filters of weather_api.py, weather_map.py and main.py.  *)
(* A result records which stations (heap addresses) contributed.           *)
(***************************************************************************)
\* `if temp and temp != '-99'` (print_temperature_summary)
ValidTemperature(temp) == Truthy(temp) /\ temp # "-99"

\* how many rows print_temperature_summary lists
SummaryRows == 15

NoTempSummary == [ran |-> FALSE, outcome |-> "", printed |-> <<>>, valid_temps |-> <<>>,
                  rows |-> <<>>]

\* valid_temps before the sort: (float(temp), d) for every station whose
\* temperature passes the filter and parses; only ValueError is caught.
RECURSIVE ValidTemps(_, _, _, _)
ValidTemps(h, data, i, acc) ==
    IF i > Len(data) THEN [exc |-> "", list |-> acc]
    ELSE LET temp == h[data[i]].temperature
             f == PyFloat(temp)
         IN  IF ~ValidTemperature(temp) \/ f.exc = "ValueError"
             THEN ValidTemps(h, data, i + 1, acc)
             ELSE IF f.exc # "" THEN [exc |-> f.exc, list |-> acc]
             ELSE ValidTemps(h, data, i + 1, Append(acc, [k |-> f.val, x |-> data[i]]))

\* print_temperature_summary: the highest and lowest valid temperature (last and
\* first of valid_temps sorted by value), then the first 15 stations; a row
\* whose temperature is not a str raises TypeError.
print_temperature_summary(h, data) ==
    IF data = <<>>
    THEN [NoTempSummary EXCEPT !.ran = TRUE, !.outcome = "returned",
                               !.printed = <<"no_data">>]
    ELSE LET valid == ValidTemps(h, data, 1, <<>>)
             sorted == PySorted(valid.list)
             rows == SubSeq(data, 1, IF Len(data) < SummaryRows THEN Len(data)
                                     ELSE SummaryRows)
             rowsPrinted == PrintedRows(h, rows, 1)
             extremes == IF sorted = <<>> THEN <<>> ELSE <<"extremes">>
         IN  IF valid.exc # ""
             THEN [NoTempSummary EXCEPT !.ran = TRUE, !.outcome = valid.exc,
                                        !.printed = <<"header">>]
             ELSE [NoTempSummary EXCEPT
                      !.ran = TRUE,
                      !.outcome = IF rowsPrinted = rows THEN "returned" ELSE "TypeError",
                      !.printed = <<"header">> \o extremes \o <<"rows">>,
                      !.valid_temps = sorted,
                      !.rows = rowsPrinted]

(***************************************************************************)
(* weather_map.py                                                          *)
(***************************************************************************)
\* colour thresholds, in units of 1/10000 degree
BlueBelow == 200000
GreenUpTo == 280000

\* get_temperature_color: float(temperature) decides; ValueError and TypeError
\* give gray.  NaN fails both comparisons.
get_temperature_color(temperature) ==
    LET f == PyFloat(temperature)
    IN  IF f.exc # "" THEN "gray"
        ELSE IF FLt(f.val, Num(BlueBelow)) THEN "blue"
        ELSE IF f.val.kind = "num" /\ f.val.v <= GreenUpTo THEN "green"
        ELSE "orange"

\* the filter of create_weather_map's valid_stations (lines 36-39)
MapValidStation(st) ==
    /\ Truthy(st.latitude) /\ Truthy(st.longitude)
    /\ Truthy(st.temperature) /\ st.temperature # "-99"

\* the first exception float() raises on the coordinates of the listed stations
RECURSIVE CoordinateError(_, _, _, _)
CoordinateError(h, list, i, field) ==
    IF i > Len(list) THEN ""
    ELSE LET f == PyFloat(IF field = "latitude" THEN h[list[i]].latitude
                          ELSE h[list[i]].longitude)
         IN  IF f.exc # "" THEN f.exc ELSE CoordinateError(h, list, i + 1, field)

\* the marker loop (lines 78-122): a station without coordinates, or whose
\* coordinates do not parse, gets no marker; every other station gets one,
\* filled with the colour of its temperature.
RECURSIVE Markers(_, _, _, _)
Markers(h, data, i, acc) ==
    IF i > Len(data) THEN acc
    ELSE LET st == h[data[i]]
         IN  IF MissingCoordinate(st.latitude, st.longitude)
                   \/ PyFloat(st.latitude).exc # "" \/ PyFloat(st.longitude).exc # ""
             THEN Markers(h, data, i + 1, acc)
             ELSE Markers(h, data, i + 1,
                          Append(acc, [station |-> data[i],
                                       color |-> get_temperature_color(st.temperature)]))

NoMap == [ran |-> FALSE, outcome |-> "", map |-> FALSE, centre |-> <<>>, markers |-> <<>>]

\* create_weather_map: None when no station is valid; the centre is the mean of
\* the valid stations' coordinates (float() there is not guarded); then the
\* markers of all stations.
create_weather_map(h, data) ==
    LET valid_stations == SelectSeq(data, LAMBDA a : MapValidStation(h[a]))
        latError == CoordinateError(h, valid_stations, 1, "latitude")
        lonError == CoordinateError(h, valid_stations, 1, "longitude")
    IN  IF valid_stations = <<>>
        THEN [NoMap EXCEPT !.ran = TRUE, !.outcome = "returned"]
        ELSE IF latError # "" THEN [NoMap EXCEPT !.ran = TRUE, !.outcome = latError]
        ELSE IF lonError # "" THEN [NoMap EXCEPT !.ran = TRUE, !.outcome = lonError]
        ELSE [NoMap EXCEPT !.ran = TRUE, !.outcome = "returned", !.map = TRUE,
                           !.centre = valid_stations,
                           !.markers = Markers(h, data, 1, <<>>)]

\* the skip test of create_temperature_heatmap (line 156)
HeatSkipped(st) ==
    \/ ~Truthy(st.latitude) \/ ~Truthy(st.longitude)
    \/ ~Truthy(st.temperature) \/ st.temperature = "-99"

\* heat_data: [lat, lon, temp] of every station that is not skipped and whose
\* three values parse
RECURSIVE HeatData(_, _, _, _)
HeatData(h, data, i, acc) ==
    IF i > Len(data) THEN acc
    ELSE LET st == h[data[i]]
             lat == PyFloat(st.latitude)
             lon == PyFloat(st.longitude)
             temp == PyFloat(st.temperature)
         IN  IF HeatSkipped(st) \/ lat.exc # "" \/ lon.exc # "" \/ temp.exc # ""
             THEN HeatData(h, data, i + 1, acc)
             ELSE HeatData(h, data, i + 1,
                           Append(acc, [station |-> data[i], lat |-> lat.val,
                                        lon |-> lon.val, weight |-> temp.val]))

NoHeatmap == [ran |-> FALSE, outcome |-> "", map |-> FALSE, heat_data |-> <<>>]

\* create_temperature_heatmap: None when heat_data is empty; centre and heat
\* layer are both computed from heat_data.
create_temperature_heatmap(h, data) ==
    LET heat_data == HeatData(h, data, 1, <<>>)
    IN  [NoHeatmap EXCEPT !.ran = TRUE, !.outcome = "returned",
                          !.map = (heat_data # <<>>), !.heat_data = heat_data]

(***************************************************************************)
(* main.py, step 4                                                         *)
(***************************************************************************)
\* the filter without its sentinel test: every station that has a temperature
ResultStationWithTemperature(st) == Truthy(st.temperature)

\* the filter of main's valid_stations (lines 119-121)
ResultValidStation(st) == Truthy(st.temperature) /\ st.temperature # "-99"

RECURSIVE Temperatures(_, _, _, _)
Temperatures(h, list, i, acc) ==
    IF i > Len(list) THEN [exc |-> "", temps |-> acc]
    ELSE LET f == PyFloat(h[list[i]].temperature)
         IN  IF f.exc # "" THEN [exc |-> f.exc, temps |-> <<>>]
             ELSE Temperatures(h, list, i + 1, Append(acc, f.val))

NoResult == [ran |-> FALSE, outcome |-> "", stations |-> <<>>, temps |-> <<>>,
             min |-> Num(0), max |-> Num(0), total |-> Num(0)]

\* step 4 of main: count, mean, max and min of float(temperature) over the
\* valid stations; float() is not guarded.
result_summary_of(h, data) ==
    LET valid_stations == SelectSeq(data, LAMBDA a : ResultValidStation(h[a]))
        t == Temperatures(h, valid_stations, 1, <<>>)
    IN  IF valid_stations = <<>> THEN [NoResult EXCEPT !.ran = TRUE, !.outcome = "returned"]
        ELSE IF t.exc # "" THEN [NoResult EXCEPT !.ran = TRUE, !.outcome = t.exc]
        ELSE [NoResult EXCEPT !.ran = TRUE, !.outcome = "returned",
                              !.stations = valid_stations, !.temps = t.temps,
                              !.min = PyMin(t.temps), !.max = PyMax(t.temps),
                              !.total = PySum(t.temps)]

(***************************************************************************)
(* The distance program (distance_calculator.py run as a script): load the *)
(* latest temperature_data file, compute the distances, print the summary. *)
(* save_temperature_data writes no file for an empty list, so a loaded     *)
(* list has at least one station.                                          *)
(***************************************************************************)
\* what the latitude / longitude of a loaded station can be: extract_temperature_data
\* stores whatever JSON value the raw coordinate entry held, or None
LatValues == {None, "", "abc", PyList, "nan", "inf", "25.0478", "24.0"}
LonValues == {None, "", "abc", "nan", "inf", "121.5170", "120.0"}

CoordinatePairs ==
    {<<lat, "121.5170">> : lat \in LatValues}
        \cup {<<"25.0478", lon>> : lon \in LonValues}
        \cup {<<None, None>>, <<"24.0", "120.0">>, <<"22.0", "120.0">>}

Station(lat, lon, temp) ==
    [latitude |-> lat, longitude |-> lon, temperature |-> temp,
     distance_to_taipei |-> NoDistance]

\* every pair of coordinates with a temperature reading, and two stations whose
\* temperature key was missing upstream (None)
DistanceInputs ==
    {Station(c[1], c[2], "25.3") : c \in CoordinatePairs}
        \cup {Station("25.0478", "121.5170", None), Station("24.0", "120.0", None)}

Addresses(n) == [i \in 1..n |-> i]

NoSnapshot == [taken |-> FALSE, list |-> <<>>, heap |-> <<>>]
NoExtract == [ran |-> FALSE, outcome |-> "", data |-> <<>>]

OtherProgramsIdle ==
    /\ temp_summary = NoTempSummary
    /\ weather_map = NoMap
    /\ heatmap = NoHeatmap
    /\ result_summary = NoResult
    /\ raw_document = NoDocument
    /\ extracted = NoExtract

Init ==
    /\ prog = "distance_calculator"
    /\ distance_only = TRUE
    /\ pc = "calculate"
    /\ \E n \in 1..MaxStations : \E f \in [1..n -> DistanceInputs] :
          /\ heap = f
          /\ weather_data = Addresses(n)
    /\ before = NoSnapshot
    /\ stations_with_distance = <<>>
    /\ summary = NotRun
    /\ OtherProgramsIdle

\* stations_with_distance = calculate_distances_to_taipei_station(weather_data)
CalculateDistances ==
    /\ pc = "calculate"
    /\ LET r == calculate_distances_to_taipei_station(heap, weather_data)
       IN  /\ heap' = r.heap
           /\ stations_with_distance' = r.out
    /\ before' = [taken |-> TRUE, list |-> weather_data, heap |-> heap]
    /\ pc' = "summary"
    /\ UNCHANGED <<prog, distance_only, weather_data, summary, temp_summary, weather_map,
                   heatmap, result_summary, raw_document, extracted>>

\* print_distance_summary(stations_with_distance); an exception ends the program
PrintDistanceSummary ==
    /\ pc = "summary"
    /\ summary' = print_distance_summary(heap, stations_with_distance)
    /\ pc' = IF summary'.outcome # "returned" THEN "crashed"
             ELSE IF prog # "distance_calculator" /\ ~distance_only THEN "result_summary"
             ELSE "done"
    /\ UNCHANGED <<prog, distance_only, heap, weather_data, before, stations_with_distance,
                   temp_summary, weather_map, heatmap, result_summary, raw_document,
                   extracted>>

Next == CalculateDistances \/ PrintDistanceSummary

Spec == Init /\ [][Next]_vars

(***************************************************************************)
(* main.py (steps 2 to 4, on the file step 1 or weather_api.py saved), and *)
(* weather_api.py run as a script before it: print_temperature_summary,    *)
(* then save, then main.py --skip-api.  An uncaught exception ends the     *)
(* run; weather_api.py saves nothing when it has no station.               *)
(***************************************************************************)
TempCoordinatePairs ==
    {<<None, None>>, <<"abc", "121.5170">>, <<"25.0478", "121.5170">>}
TempValues == {None, "-99", "18.5", "28.0", "30.1", "abc"}

MainInputs == {Station(c[1], c[2], t) : c \in TempCoordinatePairs, t \in TempValues}

FirstStepOfMain == IF distance_only THEN "calculate" ELSE "map"

InitMain ==
    /\ prog \in {"weather_api", "main"}
    /\ distance_only \in BOOLEAN
    /\ pc = IF prog = "weather_api" THEN "temperature_summary" ELSE FirstStepOfMain
    /\ \E n \in 0..MaxTempStations : \E f \in [1..n -> MainInputs] :
          /\ prog = "main" => n >= 1
          /\ heap = f
          /\ weather_data = Addresses(n)
    /\ before = NoSnapshot
    /\ stations_with_distance = <<>>
    /\ summary = NotRun
    /\ OtherProgramsIdle

\* weather_api.py: print_temperature_summary(temperature_data), then save
PrintTemperatureSummary ==
    /\ pc = "temperature_summary"
    /\ temp_summary' = print_temperature_summary(heap, weather_data)
    /\ pc' = IF temp_summary'.outcome # "returned" THEN "crashed"
             ELSE IF weather_data = <<>> THEN "no_file"
             ELSE FirstStepOfMain
    /\ UNCHANGED <<prog, distance_only, heap, weather_data, before, stations_with_distance,
                   summary, weather_map, heatmap, result_summary, raw_document, extracted>>

\* main.py step 2: create_weather_map(weather_data)
CreateWeatherMap ==
    /\ pc = "map"
    /\ weather_map' = create_weather_map(heap, weather_data)
    /\ pc' = IF weather_map'.outcome # "returned" THEN "crashed" ELSE "heatmap"
    /\ UNCHANGED <<prog, distance_only, heap, weather_data, before, stations_with_distance,
                   summary, temp_summary, heatmap, result_summary, raw_document, extracted>>

\* main.py step 2: create_temperature_heatmap(weather_data)
CreateTemperatureHeatmap ==
    /\ pc = "heatmap"
    /\ heatmap' = create_temperature_heatmap(heap, weather_data)
    /\ pc' = "calculate"
    /\ UNCHANGED <<prog, distance_only, heap, weather_data, before, stations_with_distance,
                   summary, temp_summary, weather_map, result_summary, raw_document,
                   extracted>>

\* main.py step 4
ResultSummary ==
    /\ pc = "result_summary"
    /\ result_summary' = result_summary_of(heap, weather_data)
    /\ pc' = IF result_summary'.outcome # "returned" THEN "crashed" ELSE "done"
    /\ UNCHANGED <<prog, distance_only, heap, weather_data, before, stations_with_distance,
                   summary, temp_summary, weather_map, heatmap, raw_document, extracted>>

NextMain ==
    \/ PrintTemperatureSummary
    \/ CreateWeatherMap
    \/ CreateTemperatureHeatmap
    \/ CalculateDistances
    \/ PrintDistanceSummary
    \/ ResultSummary

SpecMain == InitMain /\ [][NextMain]_vars

(***************************************************************************)
(* extract_temperature_data on a raw document.                             *)
(***************************************************************************)
Coordinate(name, lat, lon) ==
    [type |-> "dict", CoordinateName |-> name, StationLatitude |-> lat,
     StationLongitude |-> lon]
NotADict == [type |-> "str", CoordinateName |-> Absent, StationLatitude |-> Absent,
             StationLongitude |-> Absent]

CoordinateLists ==
    {<<>>,
     <<Coordinate("WGS84", "25.0478", "121.5170")>>,
     <<Coordinate("TWD67", "24.0", "120.0")>>,
     <<Coordinate("TWD67", "24.0", "120.0"), Coordinate("WGS84", "25.0478", "121.5170")>>,
     <<Coordinate("WGS84", "25.0478", "121.5170"), Coordinate("WGS84", "24.0", "120.0")>>,
     <<Coordinate("WGS84", "25.0478", "121.5170"), NotADict>>,
     <<Coordinate("WGS84", "25.0478", Absent)>>,
     <<Coordinate(Absent, "24.0", "120.0")>>,
     <<NotADict>>}

GeoInfo(type, ctype, items) ==
    [type |-> type, Coordinates |-> [type |-> ctype, items |-> items]]

GeoInfos ==
    {GeoInfo("absent", "absent", <<>>), GeoInfo("str", "absent", <<>>),
     GeoInfo("null", "absent", <<>>), GeoInfo("dict", "absent", <<>>),
     GeoInfo("dict", "null", <<>>), GeoInfo("dict", "str", <<>>)}
        \cup {GeoInfo("dict", "list", items) : items \in CoordinateLists}
GoodGeoInfo == GeoInfo("dict", "list", <<Coordinate("WGS84", "25.0478", "121.5170")>>)

WeatherElement(type, temp, ntype, precipitation) ==
    [type |-> type, AirTemperature |-> temp,
     Now |-> [type |-> ntype, Precipitation |-> precipitation]]

WeatherElements ==
    {WeatherElement("absent", Absent, "absent", Absent),
     WeatherElement("list", Absent, "absent", Absent),
     WeatherElement("null", Absent, "absent", Absent),
     WeatherElement("dict", Absent, "absent", Absent),
     WeatherElement("dict", "25.3", "dict", "0.0"),
     WeatherElement("dict", "-99", "dict", Absent),
     WeatherElement("dict", "25.3", "str", Absent)}
GoodWeatherElement == WeatherElement("dict", "25.3", "dict", "0.0")

RawStation(type, id, geo, we) ==
    [type |-> type, StationId |-> id, GeoInfo |-> geo, WeatherElement |-> we]

\* entries of records.Station: objects, and JSON values that are no object
RawStations ==
    {RawStation("str", Absent, GeoInfo("absent", "absent", <<>>),
                WeatherElement("absent", Absent, "absent", Absent)),
     RawStation("null", Absent, GeoInfo("absent", "absent", <<>>),
                WeatherElement("absent", Absent, "absent", Absent)),
     RawStation("dict", "467490", GoodGeoInfo, GoodWeatherElement),
     RawStation("dict", Absent, GoodGeoInfo, GoodWeatherElement)}
        \cup {RawStation("dict", "466920", geo, GoodWeatherElement) : geo \in GeoInfos}
        \cup {RawStation("dict", "466920", GoodGeoInfo, we) : we \in WeatherElements}

InitExtract ==
    /\ prog = "extract"
    /\ distance_only = FALSE
    /\ pc = "extract"
    /\ \/ raw_document \in {NoDocument, Document("dict", "absent", "absent", <<>>),
                             Document("dict", "dict", "absent", <<>>)}
       \/ \E n \in 0..MaxRaw : \E f \in [1..n -> RawStations] :
              raw_document = Document("dict", "dict", "list", f)
    /\ extracted = NoExtract
    /\ heap = <<>>
    /\ weather_data = <<>>
    /\ before = NoSnapshot
    /\ stations_with_distance = <<>>
    /\ summary = NotRun
    /\ temp_summary = NoTempSummary
    /\ weather_map = NoMap
    /\ heatmap = NoHeatmap
    /\ result_summary = NoResult

\* temperature_data = extract_temperature_data(weather_data)
ExtractTemperatureData ==
    /\ pc = "extract"
    /\ LET r == extract_temperature_data(raw_document)
       IN  extracted' = [ran |-> TRUE, outcome |-> r.outcome, data |-> r.data]
    /\ pc' = IF extracted'.outcome = "returned" THEN "done" ELSE "crashed"
    /\ UNCHANGED <<prog, distance_only, heap, weather_data, before, stations_with_distance,
                   summary, temp_summary, weather_map, heatmap, result_summary,
                   raw_document>>

NextExtract == ExtractTemperatureData

SpecExtract == InitExtract /\ [][NextExtract]_vars

\* PROPERTIES

(***************************************************************************)
(* Vocabulary of the properties.                                           *)
(***************************************************************************)
Range(s) == {s[i] : i \in 1..Len(s)}

Min2(a, b) == IF a < b THEN a ELSE b

\* the string parses as a finite float
ParsesFinite(v) == PyFloat(v).exc = "" /\ PyFloat(v).val.kind = "num"

\* the station has no usable coordinates: one of the two is missing or does not
\* parse as a finite float
Unusable(st) ==
    \/ st.latitude \in {None, ""}
    \/ st.longitude \in {None, ""}
    \/ ~ParsesFinite(st.latitude)
    \/ ~ParsesFinite(st.longitude)

\* the station record without the distance the ranker added
AsLoaded(st) == [st EXCEPT !.distance_to_taipei = NoDistance]

\* a is a subsequence of b (b with some elements dropped, order kept)
RECURSIVE SubsequenceFrom(_, _, _, _)
SubsequenceFrom(a, b, i, j) ==
    IF i > Len(a) THEN TRUE
    ELSE IF j > Len(b) THEN FALSE
    ELSE IF a[i] = b[j] THEN SubsequenceFrom(a, b, i + 1, j + 1)
    ELSE SubsequenceFrom(a, b, i, j + 1)
IsSubsequence(a, b) == SubsequenceFrom(a, b, 1, 1)

Calculated == before.taken
OutputStations == [i \in 1..Len(stations_with_distance) |-> heap[stations_with_distance[i]]]
OutputDistances == [i \in 1..Len(stations_with_distance) |->
                       Kilometers(heap, stations_with_distance[i])]
HasNaN(d) == \E i \in 1..Len(d) : d[i].kind = "nan"

\* C1: no station whose latitude or longitude is missing, or does not parse as a
\* finite float (NaN and infinity included), appears in the output of
\* calculate_distances_to_taipei_station.
C1_UnusableStationsExcluded ==
    Calculated => \A i \in 1..Len(OutputStations) : ~Unusable(OutputStations[i])

\* What the code does guarantee for C1: a kept station has both coordinates set
\* and parsing as floats, neither infinite (NaN is not excluded).
C1_KeptStationsParse ==
    Calculated =>
        \A i \in 1..Len(OutputStations) :
            LET st == OutputStations[i]
            IN  /\ Truthy(st.latitude) /\ Truthy(st.longitude)
                /\ PyFloat(st.latitude).exc = "" /\ PyFloat(st.longitude).exc = ""
                /\ PyFloat(st.latitude).val.kind # "inf"
                /\ PyFloat(st.longitude).val.kind # "inf"

C4_MedianMinMaxOfSorted ==
    (summary.ran /\ stations_with_distance # <<>>) =>
        LET d == OutputDistances
            s == sorted_distances(d)
        IN  /\ summary.stats.median = s[(Len(d) \div 2) + 1]
            /\ summary.stats.min = s[1]
            /\ summary.stats.max = s[Len(d)]

\* C4 restricted to distances without NaN: the sorted sequence is ascending, a
\* permutation of the distances, and median, minimum and maximum are its
\* elements at floor(n/2), first and last.
C4_StatisticsWithoutNaN ==
    (summary.ran /\ stations_with_distance # <<>> /\ ~HasNaN(OutputDistances)) =>
        LET d == OutputDistances
            s == sorted_distances(d)
            n == Len(d)
        IN  /\ \A i \in 1..(n - 1) : s[i].v <= s[i + 1].v
            /\ \A x \in Range(d) :
                   Cardinality({i \in 1..n : d[i] = x}) = Cardinality({i \in 1..n : s[i] = x})
            /\ summary.stats.median = s[(n \div 2) + 1]
            /\ summary.stats.min = s[1]
            /\ summary.stats.max = s[n]
            /\ summary.stats.count = n

\* C5: for a non-empty input of n stations the nearest listing is the first
\* min(10, n) stations of the ascending sort, the farthest listing is the last
\* min(5, n) of it in ascending order, and no error occurs.
C5_ListingsClampedNoError ==
    (summary.ran /\ stations_with_distance # <<>>) =>
        LET s == sorted_stations(heap, stations_with_distance)
            n == Len(s)
        IN  /\ summary.outcome = "returned"
            /\ summary.nearest = SubSeq(s, 1, Min2(NearestCount, n))
            /\ summary.farthest = SubSeq(s, n - Min2(FarthestCount, n) + 1, n)

\* C5 restricted to calls that return: the listings are the first min(10, n)
\* and the last min(5, n) stations of the sort, the sort is stable and, without
\* NaN, ascending by distance.
C5_ListingsWhenReturned ==
    (summary.ran /\ stations_with_distance # <<>> /\ summary.outcome = "returned") =>
        LET s == sorted_stations(heap, stations_with_distance)
            n == Len(s)
        IN  /\ summary.nearest = SubSeq(s, 1, Min2(NearestCount, n))
            /\ summary.farthest = SubSeq(s, n - Min2(FarthestCount, n) + 1, n)
            /\ Range(s) = Range(stations_with_distance) /\ n = Len(stations_with_distance)
            /\ ~HasNaN(OutputDistances) =>
                   \A i \in 1..(n - 1) :
                       \/ Kilometers(heap, s[i]).v < Kilometers(heap, s[i + 1]).v
                       \/ /\ Kilometers(heap, s[i]) = Kilometers(heap, s[i + 1])
                          /\ s[i] < s[i + 1]

\* C6: the output of calculate_distances_to_taipei_station is an order-preserving
\* subsequence of the input: kept stations are in input order, none is
\* duplicated or reordered, and the output is no longer than the input.
C6_OutputIsSubsequence ==
    Calculated =>
        /\ IsSubsequence([i \in 1..Len(OutputStations) |-> AsLoaded(OutputStations[i])],
                         [i \in 1..Len(before.list) |-> before.heap[before.list[i]]])
        /\ Len(stations_with_distance) <= Len(before.list)
        /\ \A i, j \in 1..Len(stations_with_distance) :
               i # j => stations_with_distance[i] # stations_with_distance[j]

\* two different stations are kept and a station between them is dropped
C6_Witness ==
    /\ Calculated
    /\ Len(weather_data) = 3
    /\ Len(stations_with_distance) = 2
    /\ Unusable(heap[weather_data[2]])
    /\ AsLoaded(OutputStations[1]) # AsLoaded(OutputStations[2])

\* C7: print_distance_summary prints the complete summary or fails before
\* anything has been printed; it never fails after the statistics are out.
C7_NoPartialSummary ==
    summary.ran => (summary.outcome = "returned" \/ summary.printed = <<>>)

\* C8: calculate_distances_to_taipei_station leaves its input as it was: the
\* list and every station record of it are unchanged, no input station has a
\* distance, and every output record is an object of its own.
C8_InputUnchanged ==
    Calculated =>
        /\ weather_data = before.list
        /\ \A a \in Range(before.list) :
               /\ heap[a] = before.heap[a]
               /\ ~heap[a].distance_to_taipei.present
        /\ \A o \in Range(stations_with_distance) :
               /\ o \notin Range(before.list)
               /\ heap[o].distance_to_taipei.present

C8_Witness ==
    /\ Calculated
    /\ Len(stations_with_distance) = 2
    /\ Len(weather_data) = 3

\* C9: a station whose temperature is "-99" contributes to no temperature
\* aggregate: not to the extremes of print_temperature_summary, not to the
\* mean, maximum and minimum of main's result summary, not to the heat-map data
\* and not to the centre of either map.
C9_SentinelExcludedFromAggregates ==
    /\ \A i \in 1..Len(temp_summary.valid_temps) :
           /\ heap[temp_summary.valid_temps[i].x].temperature # "-99"
           /\ temp_summary.valid_temps[i].k # Num(Decimal["-99"])
    /\ \A i \in 1..Len(result_summary.stations) :
           heap[result_summary.stations[i]].temperature # "-99"
    /\ \A i \in 1..Len(result_summary.temps) :
           result_summary.temps[i] # Num(Decimal["-99"])
    /\ result_summary.stations # <<>> =>
           /\ result_summary.min \in Range(result_summary.temps)
           /\ result_summary.max \in Range(result_summary.temps)
    /\ \A i \in 1..Len(heatmap.heat_data) :
           /\ heap[heatmap.heat_data[i].station].temperature # "-99"
           /\ heatmap.heat_data[i].weight # Num(Decimal["-99"])
    /\ \A i \in 1..Len(weather_map.centre) :
           heap[weather_map.centre[i]].temperature # "-99"

\* every aggregate has been computed over a list that holds a "-99" station with
\* coordinates next to stations with a reading
C9_Witness ==
    /\ temp_summary.ran /\ temp_summary.valid_temps # <<>>
    /\ weather_map.map
    /\ heatmap.map
    /\ result_summary.ran /\ Len(result_summary.stations) = 2
    /\ \E a \in Range(weather_data) :
           /\ heap[a].temperature = "-99"
           /\ heap[a].latitude = "25.0478"

\* C10: the marker of a station whose temperature is "-99" is gray (invalid
\* data), never blue.
C10_SentinelMarkerIsGray ==
    \A i \in 1..Len(weather_map.markers) :
        heap[weather_map.markers[i].station].temperature = "-99"
            => weather_map.markers[i].color = "gray"

\* What the marker colours are: gray exactly when float(temperature) raises,
\* else by the value, the sentinel counting as the number -99.
C10_MarkerColourByValue ==
    \A i \in 1..Len(weather_map.markers) :
        LET temp == heap[weather_map.markers[i].station].temperature
            color == weather_map.markers[i].color
        IN  /\ color = "gray" <=> temp \in {None, "abc"}
            /\ color = "blue" <=> temp \in {"-99", "18.5"}
            /\ color = "green" <=> temp = "28.0"
            /\ color = "orange" <=> temp = "30.1"

\* the raw entries the document holds
RawEntries == StationsOf(raw_document)

\* the entry is well-formed: the body of the loop raises nothing on it
WellFormed(e) == ExtractStation(e).exc = ""

\* the records of the well-formed entries, in input order
RECURSIVE WellFormedRecords(_, _)
WellFormedRecords(entries, i) ==
    IF i > Len(entries) THEN <<>>
    ELSE IF WellFormed(entries[i])
         THEN <<ExtractStation(entries[i]).station_info>> \o WellFormedRecords(entries, i + 1)
    ELSE WellFormedRecords(entries, i + 1)

\* C2: a failure on a single raw entry (an entry that is no object included) is
\* caught and only that entry is skipped: extract_temperature_data raises
\* nothing and every well-formed entry before and after it is in the output.
C2_MalformedEntrySkippedAlone ==
    extracted.ran =>
        /\ extracted.outcome = "returned"
        /\ extracted.data = WellFormedRecords(RawEntries, 1)

\* C2 for documents whose entries are all objects: nothing is raised, and the
\* output is the records of the well-formed entries.
C2_ObjectEntriesSkippedAlone ==
    (extracted.ran /\ \A i \in 1..Len(RawEntries) : RawEntries[i].type = "dict") =>
        /\ extracted.outcome = "returned"
        /\ extracted.data = WellFormedRecords(RawEntries, 1)

\* the Coordinates list of a raw entry ([] when GeoInfo or Coordinates is absent)
CoordinateList(e) ==
    IF e.GeoInfo.type = "dict" /\ e.GeoInfo.Coordinates.type = "list"
    THEN e.GeoInfo.Coordinates.items
    ELSE <<>>

\* the positions of the entries named WGS84
WGS84Indices(items) ==
    {i \in 1..Len(items) : items[i].type = "dict" /\ items[i].CoordinateName = "WGS84"}

FirstWGS84(items) ==
    CHOOSE i \in WGS84Indices(items) : \A j \in WGS84Indices(items) : i <= j

\* the raw entries that were not skipped, in input order
KeptEntries == SelectSeq(RawEntries, WellFormed)

Extracted == extracted.ran /\ extracted.outcome = "returned"

\* C11: the latitude and longitude of every output record are those of the
\* first Coordinates entry named WGS84 of its raw station and of no other entry
\* (None for a key that entry lacks); without a WGS84 entry, with an empty or
\* an absent list, both are None.
C11_FirstWGS84EntryOnly ==
    Extracted =>
        /\ Len(extracted.data) = Len(KeptEntries)
        /\ \A k \in 1..Len(KeptEntries) :
               LET items == CoordinateList(KeptEntries[k])
                   rec == extracted.data[k]
               IN  IF WGS84Indices(items) = {}
                   THEN rec.latitude = None /\ rec.longitude = None
                   ELSE LET c == items[FirstWGS84(items)]
                        IN  /\ rec.latitude = DictGet(c.StationLatitude)
                            /\ rec.longitude = DictGet(c.StationLongitude)

\* one entry has two WGS84 entries with different values, one has a WGS84 entry
\* behind another datum, one has no WGS84 entry; all three gave a record
C11_Witness ==
    /\ Extracted
    /\ Len(extracted.data) = 3
    /\ \E i, j, k \in 1..3 :
           /\ Cardinality(WGS84Indices(CoordinateList(RawEntries[i]))) = 2
           /\ WGS84Indices(CoordinateList(RawEntries[j])) = {2}
           /\ CoordinateList(RawEntries[k]) # <<>>
           /\ WGS84Indices(CoordinateList(RawEntries[k])) = {}
           /\ extracted.data[i].latitude = "25.0478"
           /\ extracted.data[j].latitude = "25.0478"
           /\ extracted.data[k].latitude = None

\* C12: when the document has no records key, or its records object has no
\* Station key, extract_temperature_data returns the empty list and raises
\* nothing.
C12_AbsentRecordsGiveEmptyList ==
    (extracted.ran /\ (\/ raw_document.records.type = "absent"
                       \/ raw_document.records.Station.type = "absent")) =>
        /\ extracted.outcome = "returned"
        /\ extracted.data = <<>>

\* the function ran on a document that has records but no Station in it
C12_Witness ==
    /\ extracted.ran
    /\ raw_document.type = "dict"
    /\ raw_document.records.type = "dict"
    /\ raw_document.records.Station.type = "absent"

\* the positions of the raw entries that were not skipped
KeptPositions == {i \in 1..Len(RawEntries) : WellFormed(RawEntries[i])}

\* C13: the output of extract_temperature_data keeps the input order and every
\* kept entry: the i-th record is the record of the i-th raw entry that was not
\* skipped (so entries with the same StationId all appear, nothing is sorted),
\* and the output is no longer than the input.
C13_OutputInInputOrder ==
    Extracted =>
        /\ Len(extracted.data) <= Len(RawEntries)
        /\ Len(extracted.data) = Cardinality(KeptPositions)
        /\ \E f \in [1..Len(extracted.data) -> KeptPositions] :
               /\ \A i, j \in 1..Len(extracted.data) : i < j => f[i] < f[j]
               /\ \A i \in 1..Len(extracted.data) :
                      extracted.data[i] = ExtractStation(RawEntries[f[i]]).station_info

\* two entries with the same StationId and different coordinates, the second
\* one first in any sorted order, are both in the output around a skipped entry
C13_Witness ==
    /\ Extracted
    /\ Len(RawEntries) = 3
    /\ KeptPositions = {1, 3}
    /\ Len(extracted.data) = 2
    /\ extracted.data[1].station_id = extracted.data[2].station_id
    /\ extracted.data[1].latitude = "25.0478"
    /\ extracted.data[2].latitude = None

====
